---- MODULE Spec2Model ----
(***************************************************************************)
(* Model of the kvas-domains build pipeline (src/src/build.py) and of the  *)
(* part of the reporter (src/src/report.py) that reads the state record    *)
(* the pipeline persists.                                                  *)
(*                                                                         *)
(* A string is a sequence of one-character strings, a text is the          *)
(* sequence of its lines (what str.splitlines() returns), a file on disk   *)
(* is a record [kind |-> "absent" | "corrupt" | "ok", ...].                *)
(***************************************************************************)
EXTENDS Integers, Sequences, FiniteSets, TLC

(***************************************************************************)
(* Bounds of the model.                                                    *)
(***************************************************************************)
MaxItdogLines == 2
MaxCatLines == 1
MaxLinesCap == 3
MaxRuns == 2
MaxBodyLen == 4

(***************************************************************************)
(* Characters and strings.                                                 *)
(***************************************************************************)
LowerLetters ==
    <<"a","b","c","d","e","f","g","h","i","j","k","l","m",
      "n","o","p","q","r","s","t","u","v","w","x","y","z">>

UpperLetters ==
    <<"A","B","C","D","E","F","G","H","I","J","K","L","M",
      "N","O","P","Q","R","S","T","U","V","W","X","Y","Z">>

Digits == <<"0","1","2","3","4","5","6","7","8","9">>

Range(s) == {s[i] : i \in 1..Len(s)}

IndexOf(s, c) == CHOOSE i \in 1..Len(s) : s[i] = c

Punctuation ==
    ("\t" :> 9) @@ ("\n" :> 10) @@ ("\r" :> 13) @@ (" " :> 32) @@ ("#" :> 35) @@
    ("*" :> 42) @@ ("-" :> 45) @@ ("." :> 46) @@ ("/" :> 47) @@ (":" :> 58) @@
    ("\\" :> 92) @@ ("_" :> 95)

Chars ==
    Range(LowerLetters) \cup Range(UpperLetters) \cup Range(Digits)
        \cup DOMAIN Punctuation

\* ord(c): the code point of a character
Ord ==
    [c \in Chars |->
        IF c \in Range(LowerLetters) THEN 96 + IndexOf(LowerLetters, c)
        ELSE IF c \in Range(UpperLetters) THEN 64 + IndexOf(UpperLetters, c)
        ELSE IF c \in Range(Digits) THEN 47 + IndexOf(Digits, c)
        ELSE Punctuation[c]]

LowerCh(c) ==
    IF c \in Range(UpperLetters) THEN LowerLetters[IndexOf(UpperLetters, c)] ELSE c

Whitespace == {" ", "\r", "\n", "\t"}

AlNum == Range(LowerLetters) \cup Range(Digits)

\* str.lower()
Lower(s) == [i \in 1..Len(s) |-> LowerCh(s[i])]

RECURSIVE LStrip(_)
LStrip(s) == IF s # <<>> /\ Head(s) \in Whitespace THEN LStrip(Tail(s)) ELSE s

RECURSIVE RStrip(_)
RStrip(s) ==
    IF s # <<>> /\ s[Len(s)] \in Whitespace
    THEN RStrip(SubSeq(s, 1, Len(s) - 1)) ELSE s

\* str.strip()
Strip(s) == RStrip(LStrip(s))

\* str.replace("\r", "")
RemoveCR(s) == SelectSeq(s, LAMBDA c : c # "\r")

\* str.startswith(p)
StartsWith(s, p) == Len(s) >= Len(p) /\ SubSeq(s, 1, Len(p)) = p

\* str.endswith(p)
EndsWith(s, p) == Len(s) >= Len(p) /\ SubSeq(s, Len(s) - Len(p) + 1, Len(s)) = p

\* s.split(sep): the pieces of s between the occurrences of the character sep
RECURSIVE SplitAt(_, _, _, _)
SplitAt(s, sep, i, cur) ==
    IF i > Len(s) THEN <<cur>>
    ELSE IF s[i] = sep THEN <<cur>> \o SplitAt(s, sep, i + 1, <<>>)
    ELSE SplitAt(s, sep, i + 1, Append(cur, s[i]))

Split(s, sep) == SplitAt(s, sep, 1, <<>>)

\* line.split(":", 1)[1]: what follows the first ":" of a line that has one
RECURSIVE AfterColon(_)
AfterColon(s) ==
    IF s = <<>> THEN <<>>
    ELSE IF Head(s) = ":" THEN Tail(s) ELSE AfterColon(Tail(s))

\* Python's order on str: by code point, a proper prefix first
RECURSIVE StrLess(_, _)
StrLess(s, t) ==
    IF t = <<>> THEN FALSE
    ELSE IF s = <<>> THEN TRUE
    ELSE IF Head(s) = Head(t) THEN StrLess(Tail(s), Tail(t))
    ELSE Ord[Head(s)] < Ord[Head(t)]

\* sorted(S) for a set S of strings
RECURSIVE SortedOf(_)
SortedOf(S) ==
    IF S = {} THEN <<>>
    ELSE LET m == CHOOSE x \in S : \A y \in S \ {x} : StrLess(x, y)
         IN  <<m>> \o SortedOf(S \ {m})

\* A deduplication that keeps the last occurrence of each element
RECURSIVE Unique_KeepsLast(_)
Unique_KeepsLast(xs) ==
    IF xs = <<>> THEN <<>>
    ELSE IF Head(xs) \in Range(Tail(xs)) THEN Unique_KeepsLast(Tail(xs))
    ELSE <<Head(xs)>> \o Unique_KeepsLast(Tail(xs))

\* list(dict.fromkeys(xs)): the first occurrence of each element, in order
RECURSIVE Unique(_)
Unique(xs) ==
    IF xs = <<>> THEN <<>>
    ELSE LET init == Unique(SubSeq(xs, 1, Len(xs) - 1))
             x    == xs[Len(xs)]
         IN  IF x \in Range(init) THEN init ELSE Append(init, x)

\* xs[:n] for n >= 0
Take(xs, n) == SubSeq(xs, 1, IF n < Len(xs) THEN n ELSE Len(xs))

None == <<"None">>

(***************************************************************************)
(* The domain validator.                                                   *)
(***************************************************************************)
LabelChars == AlNum \cup {"-"}

\* [a-z0-9](?:[a-z0-9-]{0,61}[a-z0-9])?  over an already lower-cased string
InnerLabel(l) ==
    /\ Len(l) >= 1
    /\ Len(l) <= 63
    /\ Range(l) \subseteq LabelChars
    /\ l[1] \in AlNum
    /\ l[Len(l)] \in AlNum

\* [a-z0-9-]{2,63}
LastLabel(l) ==
    /\ Len(l) >= 2
    /\ Len(l) <= 63
    /\ Range(l) \subseteq LabelChars

\* DOMAIN_RE.match(s) for a lower-cased s without a trailing newline
DOMAIN_RE(s) ==
    LET parts == Split(s, ".")
    IN  /\ Len(parts) >= 2
        /\ \A i \in 1..(Len(parts) - 1) : InnerLabel(parts[i])
        /\ LastLabel(parts[Len(parts)])

is_domain(s) == DOMAIN_RE(Lower(Strip(s)))

normalize_domain(raw) ==
    LET s1 == RemoveCR(Lower(Strip(raw)))
        s2 == IF EndsWith(s1, <<".">>) THEN SubSeq(s1, 1, Len(s1) - 1) ELSE s1
    IN  IF s1 = <<>> THEN None
        ELSE IF is_domain(s2) THEN s2 ELSE None

(***************************************************************************)
(* The source parsers.  A text is the sequence of its lines.               *)
(***************************************************************************)
V2FLY_EXTRACT_PREFIXES ==
    { <<"f","u","l","l",":">>, <<"d","o","m","a","i","n",":">> }

V2FLY_DIRECTIVE_PREFIXES ==
    { <<"i","n","c","l","u","d","e",":">>, <<"r","e","g","e","x","p",":">>,
      <<"k","e","y","w","o","r","d",":">>, <<"s","u","f","f","i","x",":">>,
      <<"p","r","e","f","i","x",":">>, <<"g","e","o","s","i","t","e",":">>,
      <<"e","x","t",":">>, <<"t","a","g",":">>, <<"a","n","d",":">>,
      <<"o","r",":">>, <<"n","o","t",":">>, <<"p","o","r","t",":">>,
      <<"i","p","c","i","d","r",":">>, <<"i","p",":">>,
      <<"p","a","y","l","o","a","d",":">>, <<"c","i","d","r",":">> }

IsSkippedLine(line) == line = <<>> \/ StartsWith(line, <<"#">>)

RECURSIVE parse_itdog(_)
parse_itdog(text) ==
    IF text = <<>> THEN <<>>
    ELSE LET line == Strip(Head(text))
             dom  == normalize_domain(line)
             rest == parse_itdog(Tail(text))
         IN  IF IsSkippedLine(line) THEN rest
             ELSE IF dom # None THEN <<dom>> \o rest
             ELSE rest

NoStats == [domains |-> <<>>, invalid_lines |-> 0, skipped_directives |-> 0]

\* A loop that lacks the "continue" of line 174: a directive goes on to the
\* attempt as a bare domain
V2flyLine_NoContinue(raw) ==
    LET line == Strip(raw)
    IN  IF IsSkippedLine(line) THEN NoStats
        ELSE IF \E p \in V2FLY_EXTRACT_PREFIXES : StartsWith(line, p)
        THEN IF normalize_domain(AfterColon(line)) # None
             THEN [NoStats EXCEPT !.domains = <<normalize_domain(AfterColon(line))>>]
             ELSE [NoStats EXCEPT !.invalid_lines = 1]
        ELSE LET k == IF \E p \in V2FLY_DIRECTIVE_PREFIXES : StartsWith(line, p)
                      THEN 1 ELSE 0
             IN  IF normalize_domain(line) # None
                 THEN [NoStats EXCEPT !.domains = <<normalize_domain(line)>>,
                                      !.skipped_directives = k]
                 ELSE [NoStats EXCEPT !.invalid_lines = 1, !.skipped_directives = k]

\* What one line adds to the V2FlyParseStats
V2flyLine(raw) ==
    LET line == Strip(raw)
        valid(dom) == [NoStats EXCEPT !.domains = <<dom>>]
        invalid    == [NoStats EXCEPT !.invalid_lines = 1]
        skipped    == [NoStats EXCEPT !.skipped_directives = 1]
    IN  IF IsSkippedLine(line) THEN NoStats
        ELSE IF \E p \in V2FLY_EXTRACT_PREFIXES : StartsWith(line, p)
        THEN LET dom == normalize_domain(AfterColon(line))
             IN  IF dom # None THEN valid(dom) ELSE invalid
        ELSE IF /\ ":" \in Range(line)
                /\ \E p \in V2FLY_DIRECTIVE_PREFIXES : StartsWith(line, p)
        THEN skipped
        ELSE LET dom == normalize_domain(line)
             IN  IF dom # None THEN valid(dom) ELSE invalid

RECURSIVE parse_v2fly_with_stats(_)
parse_v2fly_with_stats(text) ==
    IF text = <<>> THEN NoStats
    ELSE LET h == V2flyLine(Head(text))
             r == parse_v2fly_with_stats(Tail(text))
         IN  [domains            |-> h.domains \o r.domains,
              invalid_lines      |-> h.invalid_lines + r.invalid_lines,
              skipped_directives |-> h.skipped_directives + r.skipped_directives]

\* A diff that takes the previous set for the current one
diff_sets_Swapped(prev, curr) ==
    [added |-> SortedOf(prev \ curr), removed |-> SortedOf(curr \ prev)]

\* diff_sets(prev, curr): the sorted lists of the added and the removed domains
diff_sets(prev, curr) ==
    [added |-> SortedOf(curr \ prev), removed |-> SortedOf(prev \ curr)]

(***************************************************************************)
(* The fetcher.  http_get_text never raises: every transport failure is a  *)
(* FetchResult with ok = FALSE.  An error message is the record of the     *)
(* status code it spells (NoStatus when it spells none) and of its reason. *)
(***************************************************************************)
NoStatus == 0

HttpErrorCodes == {404, 503}

NoError == [code |-> NoStatus, reason |-> ""]

FetchOk(text) ==
    [ok |-> TRUE, text |-> text, error |-> NoError, status |-> 200]

FetchHttpError(code) ==
    [ok |-> FALSE, text |-> <<>>,
     error |-> [code |-> code, reason |-> "HTTPError"], status |-> code]

FetchUrlError ==
    [ok |-> FALSE, text |-> <<>>,
     error |-> [code |-> NoStatus, reason |-> "URLError"], status |-> NoStatus]

\* The results http_get_text can return when the server holds one of texts
http_get_text(texts) ==
    {FetchOk(t) : t \in texts}
        \cup {FetchHttpError(c) : c \in HttpErrorCodes}
        \cup {FetchUrlError}

(***************************************************************************)
(* Files.                                                                  *)
(***************************************************************************)
Absent == [kind |-> "absent"]

Corrupt == [kind |-> "corrupt"]

\* dict.get(key, default) or default, on a record d
Get(d, key, default) == IF key \in DOMAIN d THEN d[key] ELSE default

EmptyDict == <<>>

\* A run that never finds a previous state
read_prev_state_Never(file) == EmptyDict

\* JSON values a file that main() did not write may hold in the place of a list
\* of domains.  A string of one character is a sequence of one character.
JsonStrings(items) == [json |-> "strings", items |-> items]

JsonLists(items) == [json |-> "lists", items |-> items]

JsonNumber(n) == [json |-> "number", n |-> n]

JsonString(s) == [json |-> "string", s |-> s]

JsonNull == [json |-> "null"]

\* A JSON object that main() did not write, with the three lists of domains
ForeignDict(itdog, v2fly, final) ==
    [foreign |-> TRUE, itdog_domains |-> itdog, v2fly_extras |-> v2fly,
     final_domains |-> final]

\* A file that parses as JSON and was not written by main()
ForeignFile(is_dict, value) ==
    [kind |-> "foreign", is_dict |-> is_dict, value |-> value]

\* read_prev_state(): the record of state.json, {} when the file is absent,
\* unparseable or holds no JSON object
read_prev_state(file) ==
    IF file.kind = "ok" THEN file.value
    ELSE IF file.kind = "foreign" /\ file.is_dict THEN file.value
    ELSE EmptyDict

\* `x or []` of lines 437-439: a value that is falsy gives the empty list
IsFalsy(j) ==
    \/ j.json = "null"
    \/ j.json = "number" /\ j.n = 0
    \/ j.json = "string" /\ j.s = <<>>
    \/ j.json \in {"strings", "lists"} /\ j.items = <<>>

\* set(x) raises TypeError for a number (not iterable) and for a list that
\* holds a list (unhashable)
SetRaises(j) == ~IsFalsy(j) /\ j.json \in {"number", "lists"}

\* set(x): the items of a list of strings, the characters of a string
SetOfJson(j) ==
    IF IsFalsy(j) THEN {}
    ELSE IF j.json = "strings" THEN Range(j.items)
    ELSE IF j.json = "string" THEN { <<j.s[i]>> : i \in 1..Len(j.s) }
    ELSE {}

\* lines 437-439: set(prev_state.get(key, []) or [])
PrevSet(d, key) ==
    IF "foreign" \in DOMAIN d THEN SetOfJson(d[key]) ELSE Range(Get(d, key, <<>>))

\* lines 437-439: one of the three conversions raises
PrevSetsRaise(d) ==
    /\ "foreign" \in DOMAIN d
    /\ \E key \in {"itdog_domains", "v2fly_extras", "final_domains"} : SetRaises(d[key])

\* The lines of the file that holds "\n".join(xs) + "\n"
FileLines(xs) == IF xs = <<>> THEN << <<>> >> ELSE xs

\* sha256_file: equal digests exactly for equal contents
sha256_file(file) == [sha256_of |-> file.lines]

(***************************************************************************)
(* Warnings.                                                               *)
(***************************************************************************)
\* A warning is a string: its wording (kind) and the values it spells, which
\* are a category name, an error message and two counts, each empty or 0 in
\* the wordings that do not spell one.
Warning(kind) ==
    [kind |-> kind, cat |-> <<>>, error |-> NoError, failed |-> 0, total |-> 0]

\* "itdog: не удалось скачать (<error>)"
WarnItdogFetch(error) == [Warning("itdog_fetch_failed") EXCEPT !.error = error]

\* "itdog: список скачался, но пустой"
WarnItdogEmpty == Warning("itdog_empty")

\* "v2fly: нет файла src/v2fly_allow.txt (v2fly пропущен)"
WarnNoCatFile == Warning("v2fly_no_file")

\* "v2fly: файл категорий пустой (v2fly пропущен)"
WarnCatFileEmpty == Warning("v2fly_file_empty")

\* "v2fly: не скачались категории: <failed>/<total>"
WarnCatsFailed(failed, total) ==
    [Warning("v2fly_categories_failed") EXCEPT !.failed = failed, !.total = total]

\* "v2fly: категории указаны, но доменов не получено"
WarnNoV2flyDomains == Warning("v2fly_no_domains")

(***************************************************************************)
(* The steps of main() that are pure.                                      *)
(***************************************************************************)
\* NEAR_LIMIT_THRESHOLD (2900 of the 3000 lines of MAX_LINES), on the scale of
\* the limits of the model
NEAR_LIMIT_THRESHOLD == MaxLinesCap - 1

\* format_report_new, line 334: the "near limit" line of report.md
near_limit(final_total) == final_total >= NEAR_LIMIT_THRESHOLD

\* lines 447-453: the parsed itdog list and the warnings of the itdog fetch
ItdogList(res) == IF ~res.ok THEN <<>> ELSE parse_itdog(res.text)

\* A run that keeps silent about a failed itdog fetch
ItdogWarnings_Silent(res) ==
    IF res.ok /\ Len(parse_itdog(res.text)) = 0 THEN <<WarnItdogEmpty>> ELSE <<>>

ItdogWarnings(res) ==
    IF ~res.ok THEN <<WarnItdogFetch(res.error)>>
    ELSE IF Len(parse_itdog(res.text)) = 0 THEN <<WarnItdogEmpty>>
    ELSE <<>>

\* A reader that takes a comment line for a category name
read_v2fly_categories_KeepsComments(file) ==
    IF file.kind # "ok" THEN <<>>
    ELSE SelectSeq([i \in 1..Len(file.lines) |-> Strip(file.lines[i])],
                   LAMBDA l : l # <<>>)

\* read_v2fly_categories: the category names of the lines of the file
RECURSIVE read_v2fly_categories(_)
read_v2fly_categories(file) ==
    IF file.kind # "ok" \/ file.lines = <<>> THEN <<>>
    ELSE LET line == Strip(Head(file.lines))
             rest == read_v2fly_categories([file EXCEPT !.lines = Tail(@)])
         IN  IF IsSkippedLine(line) THEN rest ELSE <<line>> \o rest

FailStats ==
    [valid_domains |-> 0, extras_added |-> 0, invalid_lines |-> 0,
     skipped_directives |-> 0, status |-> "FAIL"]

\* A per-category record that counts every valid domain as an extra
CategoryStats_CountsValid(res, itdog_set) ==
    IF ~res.ok THEN FailStats
    ELSE LET parsed == parse_v2fly_with_stats(res.text)
             valid  == Unique(parsed.domains)
         IN  [valid_domains      |-> Len(valid),
              extras_added       |-> Len(valid),
              invalid_lines      |-> parsed.invalid_lines,
              skipped_directives |-> parsed.skipped_directives,
              status |-> IF Len(valid) = 0 THEN "EMPTY (warning sign)" ELSE "OK"]

\* lines 478-507: the per-category record of one fetched category
CategoryStats(res, itdog_set) ==
    IF ~res.ok THEN FailStats
    ELSE LET parsed == parse_v2fly_with_stats(res.text)
             valid  == Unique(parsed.domains)
             extras == SortedOf({d \in Range(valid) : d \notin itdog_set})
         IN  [valid_domains      |-> Len(valid),
              extras_added       |-> Len(extras),
              invalid_lines      |-> parsed.invalid_lines,
              skipped_directives |-> parsed.skipped_directives,
              status |-> IF Len(valid) = 0 THEN "EMPTY (warning sign)" ELSE "OK"]

\* lines 490-492: the domains a fetched category adds to v2fly_domains_all
CategoryDomains(res) ==
    IF ~res.ok THEN <<>> ELSE Unique(parse_v2fly_with_stats(res.text).domains)

\* lines 513-517: the warnings after the category loop
LoopWarnings(failed, all, ncats) ==
    (IF failed # <<>> THEN <<WarnCatsFailed(Len(failed), ncats)>> ELSE <<>>)
    \o (IF Len(all) = 0 /\ ncats > 0 /\ failed = <<>>
        THEN <<WarnNoV2flyDomains>> ELSE <<>>)

\* A merge that forgets the precedence of itdog
V2flyExtras_NoPrecedence(all, itdog_set) == SortedOf(Range(all))

\* A merge that keeps the extras in the order of their first occurrence
V2flyExtras_Unsorted(all, itdog_set) ==
    SelectSeq(Unique(all), LAMBDA d : d \notin itdog_set)

\* line 522: the v2fly domains that are not itdog domains, sorted
V2flyExtras(all, itdog_set) == SortedOf({d \in Range(all) : d \notin itdog_set})

\* lines 529-532
BadOutputLines(full) == Cardinality({i \in 1..Len(full) : ~is_domain(full[i])})

\* A count of the entries that are kept, not of those that are cut
TruncatedCount_Kept(full, limit) == IF Len(full) > limit THEN limit ELSE 0

\* lines 535-540: the limit
TruncatedCount(full, limit) == IF Len(full) > limit THEN Len(full) - limit ELSE 0

\* A limit that keeps one entry too many
FinalList_OneMore(full, limit) ==
    IF Len(full) > limit THEN Take(full, limit + 1) ELSE full

FinalList(full, limit) == IF Len(full) > limit THEN Take(full, limit) ELSE full

\* data[-200:] of append_stats
StatsKeep == 200

\* A cut that keeps the oldest records
LastN_KeepsFirst(xs, n) == IF Len(xs) <= n THEN xs ELSE SubSeq(xs, 1, n)

LastN(xs, n) == IF Len(xs) <= n THEN xs ELSE SubSeq(xs, Len(xs) - n + 1, Len(xs))

\* lines 231-239: the list stats.json holds, [] when absent or not a list
StatsData(file) == IF file.kind = "ok" THEN file.data ELSE <<>>

\* lines 241-242: the list append_stats writes
AppendedStats(file, rec) == LastN(Append(StatsData(file), rec), StatsKeep)

NoDelta == [some |-> FALSE, value |-> 0]

\* lines 245, 584-585: the total minus the total of the record before the last
DeltaTotal(data, total) ==
    IF Len(data) >= 2
    THEN [some |-> TRUE, value |-> total - data[Len(data) - 1].total]
    ELSE NoDelta

\* lines 588-594
CountFail(per_cat) ==
    Cardinality({c \in DOMAIN per_cat : per_cat[c].status = "FAIL"})

CountOk(per_cat) ==
    Cardinality({c \in DOMAIN per_cat : per_cat[c].status # "FAIL"})

\* lines 597-603
OrderedPerCat(per_cat, cs) ==
    [c \in Range(cs) |-> IF c \in DOMAIN per_cat THEN per_cat[c] ELSE FailStats]

\* A state record that holds the candidate list before the limit
StateRecord_Untruncated(sha, itdog_set, v2fly_set, final_set, per_cat, cs, warns) ==
    [sha256_final       |-> sha,
     itdog_domains      |-> SortedOf(itdog_set),
     v2fly_extras       |-> SortedOf(v2fly_set),
     final_domains      |-> SortedOf(itdog_set \cup v2fly_set),
     v2fly_per_category |-> per_cat,
     v2fly_categories   |-> cs,
     warnings           |-> warns]

\* lines 642-651: the state record (the build time is not modelled)
StateRecord(sha, itdog_set, v2fly_set, final_set, per_cat, cs, warns) ==
    [sha256_final       |-> sha,
     itdog_domains      |-> SortedOf(itdog_set),
     v2fly_extras       |-> SortedOf(v2fly_set),
     final_domains      |-> SortedOf(final_set),
     v2fly_per_category |-> per_cat,
     v2fly_categories   |-> cs,
     warnings           |-> warns]

(***************************************************************************)
(* The reporter (src/src/report.py), which reads state.json only.          *)
(***************************************************************************)
\* report_common.py, lines 131-139: the marker of a status in the table of the
\* categories.  The status is compared as a whole (upper() changes none of
\* the statuses the build writes); any other status gets the white marker.
status_emoji(status) ==
    IF status = "OK" THEN "green OK"
    ELSE IF status = "EMPTY" THEN "yellow EMPTY"
    ELSE IF status = "FAIL" THEN "red FAIL"
    ELSE "white"

\* pct(part, total) >= q of report_common.py, lines 99-102, in whole numbers
PctAtLeast(part, total, q) == total # 0 /\ 100 * part >= q * total

\* report_common.py, lines 142-159: the level of a build, from the state
\* record alone.  The levels are written in Russian in the source.
classify_severity(state) ==
    LET warns     == Get(state, "warnings", <<>>)
        failed    == Get(state, "failed_categories", <<>>)
        empty     == Get(state, "empty_categories", <<>>)
        total     == Get(state, "final_total", 0)
        limit     == Get(state, "max_lines", 0)
        threshold == Get(state, "near_limit_threshold", 0)
        trunc     == Get(state, "truncated", 0)
        bad       == Get(state, "bad_output_lines", 0)
        v2_fail   == Get(state, "v2fly_fail", 0)
    IN  IF \/ v2_fail > 0
           \/ bad > 0
           \/ trunc > 0
           \/ PctAtLeast(total, limit, 96)
           \/ Len(failed) > 0
        THEN "ERROR"
        ELSE IF \/ Len(empty) > 0
                \/ Len(warns) > 0
                \/ total >= threshold
                \/ PctAtLeast(total, limit, 85)
        THEN "WARNING"
        ELSE "OK"

\* round(a / b) for a >= 0 and b > 0
RoundDiv(a, b) == (2 * a + b) \div (2 * b)

\* report.py, lines 243-294: the level of a build, from the values main()
\* passes; usage is the percentage in tenths of a percent
report_classify_severity(kw) ==
    LET is_error ==
            \/ kw.v2fly_fail > 0
            \/ kw.failed_categories # <<>>
            \/ kw.bad_output_lines > 0
            \/ kw.truncated_count > 0
            \/ kw.usage >= 960
        is_warn ==
            /\ ~is_error
            /\ \/ kw.empty_categories # <<>>
               \/ kw.warnings # <<>>
               \/ kw.usage >= 850
               \/ /\ kw.max_lines > 0
                  /\ RoundDiv(kw.usage * kw.max_lines, 1000) >= kw.threshold
    IN  IF is_error THEN "ERROR" ELSE IF is_warn THEN "WARNING" ELSE "OK"

\* report.py, lines 300-383: the values main() reads from the state record
\* and passes to its classify_severity
report_severity(state) ==
    LET limit       == Get(state, "max_lines", 3000)
        final_total == Cardinality(Range(Get(state, "final_domains", <<>>)))
    IN  report_classify_severity(
            [v2fly_fail        |-> Get(state, "v2fly_fail", 0),
             failed_categories |-> Get(state, "failed_categories", <<>>),
             bad_output_lines  |-> Get(state, "bad_output_lines", 0),
             truncated_count   |-> Get(state, "truncated", 0),
             usage     |-> IF limit # 0 THEN RoundDiv(1000 * final_total, limit) ELSE 0,
             max_lines |-> limit,
             threshold |-> Get(state, "near_limit_threshold", 2900),
             empty_categories  |-> Get(state, "empty_categories", <<>>),
             warnings          |-> Get(state, "warnings", <<>>)])

\* report.py, lines 304-331: the diffs the reporter shows
report_diffs(state) ==
    LET prev == Get(state, "prev", EmptyDict)
        old(key) == Range(Get(prev, key, <<>>))
        new(key) == Range(Get(state, key, <<>>))
    IN  [itdog |-> diff_sets(old("itdog_domains"), new("itdog_domains")),
         v2fly |-> diff_sets(old("v2fly_extras"), new("v2fly_extras")),
         final |-> diff_sets(old("final_domains"), new("final_domains"))]

(***************************************************************************)
(* Inputs: what the upstream servers and the category file can hold.       *)
(***************************************************************************)
SeqsUpTo(S, n) == UNION {[1..k -> S] : k \in 0..n}

a_com == <<"a",".","c","o","m">>
b_com == <<"b",".","c","o","m">>
c_com == <<"c",".","c","o","m">>

A_COM_dot == <<"A",".","C","O","M",".">>

\* "b.com ." : a domain, a blank and a dot
b_com_blank_dot == b_com \o <<" ", ".">>

ItdogLines == { b_com, A_COM_dot, b_com_blank_dot, <<"#","c","o","m","m","e","n","t">> }

V2flyLines ==
    { <<"f","u","l","l",":">> \o a_com,
      c_com,
      <<"i","n","c","l","u","d","e",":","g","e","o","s","i","t","e",":","c","n">> }

ItdogTexts == SeqsUpTo(ItdogLines, MaxItdogLines)

V2flyTexts == SeqsUpTo(V2flyLines, MaxCatLines)

cat1 == <<"c","1">>
cat2 == <<"c","2">>

CategoryFiles ==
    {Absent} \cup
    { [kind |-> "ok", lines |-> t] :
        t \in { <<>>, << <<"#">> >>, <<cat1>>, <<cat2>>, <<cat1, cat2>>,
                <<cat2, cat1>>, <<cat1, cat1>> } }

\* The lines given to the validator and to the parsers on their own: a
\* prefix, every string of the body alphabet up to MaxBodyLen, and an ending
BodyChars == {"a", "B", ".", "-"}

Bodies == SeqsUpTo(BodyChars, MaxBodyLen)

LinePrefixes ==
    { <<>>, <<"d","o","m","a","i","n",":">>, <<"f","u","l","l",":">>,
      <<"i","n","c","l","u","d","e",":">>, <<"x",":">>, <<"#">>, <<" ">> }

LineEndings == { <<>>, <<".">>, <<" ">>, <<" ", ".">> }

ParseLines == { p \o b \o e : p \in LinePrefixes, b \in Bodies, e \in LineEndings }

\* A few lines of every kind, for the texts of two lines
FewLines == V2flyLines \cup { <<"#">>, <<>>, <<"x", ":", "y">> }

\* Texts in which a domain comes back after another one
RepeatingTexts == [1..(MaxItdogLines + 1) -> {a_com, b_com}]

ParseTexts ==
    {<<>>} \cup { <<l>> : l \in ParseLines } \cup [1..2 -> FewLines]
        \cup RepeatingTexts

(***************************************************************************)
(* State.                                                                  *)
(***************************************************************************)
VARIABLES
    text,               \* the text given to parse_itdog and parse_v2fly_with_stats
    raw_line,           \* the string given to normalize_domain
    normalized,         \* what normalize_domain returned, call after call
    prefixed,           \* what it returned for "domain:" and "full:" + raw_line
    itdog_parsed,       \* what parse_itdog returned
    v2fly_parsed,       \* what parse_v2fly_with_stats returned
    max_lines,          \* MAX_LINES, the configured limit
    state_json,         \* dist/state.json
    final_out,          \* dist/inside-kvas.lst
    stats_json,         \* dist/stats.json
    tg_alert,           \* dist/tg_alert.txt
    disk0,              \* history: the four files as the current run found them
    before,             \* history: the inputs and the hash of the run before
    failed_at,          \* history: the step at which the last run raised
    pc,                 \* where main() is
    runs,               \* history: the number of runs that have ended
    rc,                 \* the exit status of the last run
    prev_state,         \* locals of main(), under their names in the source
    warnings,
    failed_categories,
    empty_categories,
    itdog_fetch,
    itdog_list,
    itdog_unique,
    categories_file,
    cats,
    cat_i,
    cat_fetch,          \* history: the fetch result of each category, in turn
    v2fly_domains_all,
    per_cat_stats,
    v2fly_extras_sorted,
    final_list,
    truncated_count,
    bad_output_lines,
    itdog_diff,
    v2fly_diff,
    final_diff,
    delta_total,
    v2fly_ok,
    v2fly_fail,
    sha_final

files == <<state_json, final_out, stats_json, tg_alert>>

fetched == <<itdog_fetch, itdog_list, itdog_unique, categories_file, cats,
             cat_i, cat_fetch, v2fly_domains_all, per_cat_stats,
             failed_categories, empty_categories>>

merged == <<v2fly_extras_sorted, final_list, truncated_count, bad_output_lines>>

diffed == <<itdog_diff, v2fly_diff, final_diff, delta_total>>

counted == <<v2fly_ok, v2fly_fail, sha_final>>

history == <<disk0, before, failed_at>>

parsing == <<text, raw_line, normalized, prefixed, itdog_parsed, v2fly_parsed>>

vars == <<parsing, max_lines, files, history, pc, runs, rc, prev_state, warnings,
          fetched, merged, diffed, counted>>

itdog_set == Range(itdog_unique)

v2fly_set == Range(v2fly_extras_sorted)

final_set == Range(final_list)

prev_itdog_set == PrevSet(prev_state, "itdog_domains")

prev_v2fly_set == PrevSet(prev_state, "v2fly_extras")

prev_final_set == PrevSet(prev_state, "final_domains")

NoFetch == [ok |-> FALSE, text |-> <<>>, error |-> NoError, status |-> NoStatus]

NoRunBefore ==
    [some |-> FALSE, itdog_fetch |-> NoFetch, categories_file |-> Absent,
     cat_fetch |-> <<>>, sha_final |-> sha256_file([lines |-> <<>>])]

NoDiff == [added |-> <<>>, removed |-> <<>>]

\* No function has been applied on its own
NothingParsed ==
    /\ normalized = <<>>
    /\ prefixed = <<>>
    /\ itdog_parsed = <<>>
    /\ v2fly_parsed = NoStats

\* main() has not run: its locals have no value yet
NoRunYet ==
    /\ disk0 = <<Absent, Absent, Absent, Absent>>
    /\ before = NoRunBefore
    /\ failed_at = "none"
    /\ runs = 0
    /\ rc = 0
    /\ prev_state = EmptyDict
    /\ warnings = <<>>
    /\ failed_categories = <<>>
    /\ empty_categories = <<>>
    /\ itdog_fetch = NoFetch
    /\ itdog_list = <<>>
    /\ itdog_unique = <<>>
    /\ categories_file = Absent
    /\ cats = <<>>
    /\ cat_i = 1
    /\ cat_fetch = <<>>
    /\ v2fly_domains_all = <<>>
    /\ per_cat_stats = <<>>
    /\ v2fly_extras_sorted = <<>>
    /\ final_list = <<>>
    /\ truncated_count = 0
    /\ bad_output_lines = 0
    /\ itdog_diff = NoDiff
    /\ v2fly_diff = NoDiff
    /\ final_diff = NoDiff
    /\ delta_total = NoDelta
    /\ v2fly_ok = 0
    /\ v2fly_fail = 0
    /\ sha_final = sha256_file([lines |-> <<>>])

\* A fresh checkout in which main() has not run
FreshCheckout ==
    /\ state_json = Absent
    /\ final_out = Absent
    /\ stats_json = Absent
    /\ tg_alert = Absent
    /\ NoRunYet

Init ==
    /\ text = <<>>
    /\ raw_line = <<>>
    /\ NothingParsed
    /\ max_lines \in 0..MaxLinesCap
    /\ pc = "idle"
    /\ FreshCheckout

(***************************************************************************)
(* main(), one action for each stretch between two of its reads or writes. *)
(***************************************************************************)
\* lines 427-443: a run starts and reads the state the run before it left
BeginRun(limit) ==
    /\ pc \in {"idle", "done", "failed"}
    /\ runs < limit
    /\ ~PrevSetsRaise(read_prev_state(state_json))
    /\ pc' = "itdog"
    /\ disk0' = files
    /\ before' =
         IF pc = "done"
         THEN [some |-> TRUE, itdog_fetch |-> itdog_fetch,
               categories_file |-> categories_file, cat_fetch |-> cat_fetch,
               sha_final |-> sha_final]
         ELSE NoRunBefore
    /\ failed_at' = "none"
    /\ prev_state' = read_prev_state(state_json)
    /\ warnings' = <<>>
    /\ failed_categories' = <<>>
    /\ empty_categories' = <<>>
    /\ itdog_fetch' = NoFetch
    /\ itdog_list' = <<>>
    /\ itdog_unique' = <<>>
    /\ categories_file' = Absent
    /\ cats' = <<>>
    /\ cat_i' = 1
    /\ cat_fetch' = <<>>
    /\ v2fly_domains_all' = <<>>
    /\ per_cat_stats' = <<>>
    /\ v2fly_extras_sorted' = <<>>
    /\ final_list' = <<>>
    /\ truncated_count' = 0
    /\ bad_output_lines' = 0
    /\ itdog_diff' = NoDiff
    /\ v2fly_diff' = NoDiff
    /\ final_diff' = NoDiff
    /\ delta_total' = NoDelta
    /\ v2fly_ok' = 0
    /\ v2fly_fail' = 0
    /\ sha_final' = sha256_file([lines |-> <<>>])
    /\ UNCHANGED <<parsing, max_lines, files, runs, rc>>

\* lines 436-439: set() raises TypeError on a value of the state record that
\* is no list of strings: nothing catches it, and the run ends with a
\* traceback and a non-zero status before it has fetched or written anything
BeginRunRaises(limit) ==
    /\ pc \in {"idle", "done", "failed"}
    /\ runs < limit
    /\ PrevSetsRaise(read_prev_state(state_json))
    /\ pc' = "failed"
    /\ disk0' = files
    /\ before' = NoRunBefore
    /\ failed_at' = "read_state"
    /\ prev_state' = read_prev_state(state_json)
    /\ runs' = runs + 1
    /\ rc' = 1
    /\ UNCHANGED <<parsing, max_lines, files, warnings, fetched, merged, diffed,
                   counted>>

\* lines 445-456: the itdog base is fetched, parsed and deduplicated
FetchItdog(res) ==
    /\ pc = "itdog"
    /\ pc' = "categories"
    /\ itdog_fetch' = res
    /\ warnings' = warnings \o ItdogWarnings(res)
    /\ itdog_list' = ItdogList(res)
    /\ itdog_unique' = Unique(ItdogList(res))
    /\ UNCHANGED <<parsing, max_lines, files, history, runs, rc, prev_state,
                   categories_file, cats, cat_i, cat_fetch, v2fly_domains_all,
                   per_cat_stats, failed_categories, empty_categories,
                   merged, diffed, counted>>

\* lines 458-473: the category file is read
ReadCategories(file) ==
    /\ pc = "categories"
    /\ categories_file' = file
    /\ cats' = read_v2fly_categories(file)
    /\ warnings' =
         IF file.kind # "ok" THEN Append(warnings, WarnNoCatFile)
         ELSE IF Len(read_v2fly_categories(file)) = 0
         THEN Append(warnings, WarnCatFileEmpty)
         ELSE warnings
    /\ pc' = IF file.kind = "ok" /\ Len(read_v2fly_categories(file)) > 0
             THEN "category" ELSE "merge"
    /\ UNCHANGED <<parsing, max_lines, files, history, runs, rc, prev_state,
                   itdog_fetch, itdog_list, itdog_unique, cat_i, cat_fetch,
                   v2fly_domains_all, per_cat_stats, failed_categories,
                   empty_categories, merged, diffed, counted>>

\* lines 474-511: one turn of the loop over the categories
FetchCategory(res) ==
    /\ pc = "category"
    /\ cat_i <= Len(cats)
    /\ LET cat   == cats[cat_i]
           stats == CategoryStats(res, itdog_set)
       IN  /\ cat_fetch' = Append(cat_fetch, [cat |-> cat, res |-> res])
           /\ failed_categories' =
                IF ~res.ok
                THEN Append(failed_categories, [cat |-> cat, error |-> res.error])
                ELSE failed_categories
           /\ empty_categories' =
                IF res.ok /\ stats.valid_domains = 0
                THEN Append(empty_categories, cat)
                ELSE empty_categories
           /\ v2fly_domains_all' = v2fly_domains_all \o CategoryDomains(res)
           /\ per_cat_stats' = (cat :> stats) @@ per_cat_stats
    /\ cat_i' = cat_i + 1
    /\ pc' = IF cat_i = Len(cats) THEN "merge" ELSE "category"
    /\ UNCHANGED <<parsing, max_lines, files, history, runs, rc, prev_state, warnings,
                   itdog_fetch, itdog_list, itdog_unique, categories_file, cats,
                   merged, diffed, counted>>

\* lines 513-543: the warnings of the loop, the merge and the limit
MergeAndLimit ==
    /\ pc = "merge"
    /\ pc' = "write_final"
    /\ warnings' =
         IF categories_file.kind = "ok" /\ Len(cats) > 0
         THEN warnings \o LoopWarnings(failed_categories, v2fly_domains_all, Len(cats))
         ELSE warnings
    /\ LET extras == V2flyExtras(v2fly_domains_all, itdog_set)
           full   == itdog_unique \o extras
       IN  /\ v2fly_extras_sorted' = extras
           /\ bad_output_lines' = BadOutputLines(full)
           /\ truncated_count' = TruncatedCount(full, max_lines)
           /\ final_list' = FinalList(full, max_lines)
    /\ UNCHANGED <<parsing, max_lines, files, history, runs, rc, prev_state,
                   fetched, diffed, counted>>

\* lines 545-546: the final file is written
WriteFinal ==
    /\ pc = "write_final"
    /\ pc' = "stats"
    /\ final_out' = [kind |-> "ok", lines |-> FileLines(final_list)]
    /\ UNCHANGED <<parsing, max_lines, state_json, stats_json, tg_alert, history, runs, rc,
                   prev_state, warnings, fetched, merged, diffed, counted>>

\* lines 548-585: the diffs against the previous state, and stats.json
\* (the snapshots under dist/history are written and never read, and so are the
\* time and the warnings of a record of stats.json: not modelled)
DiffAndStats ==
    /\ pc = "stats"
    /\ pc' = "write_state"
    /\ itdog_diff' = diff_sets(prev_itdog_set, itdog_set)
    /\ v2fly_diff' = diff_sets(prev_v2fly_set, v2fly_set)
    /\ final_diff' = diff_sets(prev_final_set, final_set)
    /\ LET rec  == [total |-> Cardinality(final_set),
                    itdog |-> Cardinality(itdog_set),
                    v2fly |-> Cardinality(v2fly_set)]
           data == AppendedStats(stats_json, rec)
       IN  /\ stats_json' = [kind |-> "ok", data |-> data]
           /\ delta_total' = DeltaTotal(data, Cardinality(final_set))
    /\ UNCHANGED <<parsing, max_lines, state_json, final_out, tg_alert, history, runs, rc,
                   prev_state, warnings, fetched, merged, counted>>

\* lines 587-652: the counts, the hash, the report (not modelled) and state.json
WriteState ==
    /\ pc = "write_state"
    /\ pc' = "notify"
    /\ v2fly_ok' = CountOk(per_cat_stats)
    /\ v2fly_fail' = CountFail(per_cat_stats)
    /\ sha_final' = sha256_file(final_out)
    /\ state_json' =
         [kind  |-> "ok",
          value |-> StateRecord(sha256_file(final_out), itdog_set, v2fly_set,
                                final_set, OrderedPerCat(per_cat_stats, cats),
                                cats, warnings)]
    /\ UNCHANGED <<parsing, max_lines, final_out, stats_json, tg_alert, history, runs, rc,
                   prev_state, warnings, fetched, merged, diffed>>

\* An end of run that writes an alert and never removes one
Notify_KeepsAlert ==
    /\ pc = "notify"
    /\ pc' = "done"
    /\ tg_alert' = IF warnings # <<>>
                   THEN [kind |-> "ok", warnings |-> warnings]
                   ELSE tg_alert
    /\ runs' = runs + 1
    /\ rc' = 0
    /\ UNCHANGED <<parsing, max_lines, state_json, final_out, stats_json, history,
                   prev_state, warnings, fetched, merged, diffed, counted>>

\* lines 654-662: the alert is written or removed, and main returns 0
Notify ==
    /\ pc = "notify"
    /\ pc' = "done"
    /\ tg_alert' = IF warnings # <<>>
                   THEN [kind |-> "ok", warnings |-> warnings]
                   ELSE Absent
    /\ runs' = runs + 1
    /\ rc' = 0
    /\ UNCHANGED <<parsing, max_lines, state_json, final_out, stats_json, history,
                   prev_state, warnings, fetched, merged, diffed, counted>>

\* A write of main() raises OSError: nothing catches it, the run ends with a
\* traceback and a non-zero status.  The file being written is as it was (the
\* open failed) or is cut short (the write failed).
PersistFails(left) ==
    /\ pc \in {"write_final", "stats", "write_state", "notify"}
    /\ pc' = "failed"
    /\ final_out'  = IF pc = "write_final" THEN left ELSE final_out
    /\ stats_json' = IF pc = "stats" THEN left ELSE stats_json
    /\ state_json' = IF pc = "write_state" THEN left ELSE state_json
    /\ tg_alert'   = IF pc = "notify" THEN left ELSE tg_alert
    /\ failed_at' = pc
    /\ runs' = runs + 1
    /\ rc' = 1
    /\ UNCHANGED <<parsing, max_lines, disk0, before, prev_state, warnings, fetched,
                   merged, diffed, counted>>

FileBeingWritten ==
    CASE pc = "write_final" -> final_out
      [] pc = "stats" -> stats_json
      [] pc = "write_state" -> state_json
      [] OTHER -> tg_alert

\* One build, from a fresh checkout, over every input of the bounds
Next ==
    \/ BeginRun(1)
    \/ \E res \in http_get_text(ItdogTexts) : FetchItdog(res)
    \/ \E file \in CategoryFiles : ReadCategories(file)
    \/ \E res \in http_get_text(V2flyTexts) : FetchCategory(res)
    \/ MergeAndLimit
    \/ WriteFinal
    \/ DiffAndStats
    \/ WriteState
    \/ Notify
    \/ \E left \in {FileBeingWritten, Corrupt} : PersistFails(left)

Spec == Init /\ [][Next]_vars

(***************************************************************************)
(* Successive builds in one checkout: each run finds the files the runs    *)
(* before it left.  The upstream texts are drawn from a few versions.      *)
(***************************************************************************)
ItdogVersions == { <<b_com, A_COM_dot>>, <<b_com>> }

V2flyVersions == { <<c_com, <<"f","u","l","l",":">> \o a_com>>, <<>> }

CategoryFileVersions == { [kind |-> "ok", lines |-> <<cat1>>] }

NextRuns ==
    \/ BeginRun(MaxRuns)
    \/ \E res \in http_get_text(ItdogVersions) : FetchItdog(res)
    \/ \E file \in CategoryFileVersions : ReadCategories(file)
    \/ \E res \in http_get_text(V2flyVersions) : FetchCategory(res)
    \/ MergeAndLimit
    \/ WriteFinal
    \/ DiffAndStats
    \/ WriteState
    \/ Notify
    \/ \E left \in {FileBeingWritten, Corrupt} : PersistFails(left)

SpecRuns == Init /\ [][NextRuns]_vars

(***************************************************************************)
(* One build in a directory that holds files of earlier runs or of another *)
(* writer: a state record in every shape JSON allows, and a statistics     *)
(* file that is full or about to be.                                       *)
(***************************************************************************)
\* The three lists of a state record in one shape
SameShape(j) == ForeignFile(TRUE, ForeignDict(j, j, j))

FoundStates ==
    { Absent, Corrupt,
      ForeignFile(FALSE, JsonStrings(<<a_com>>)),
      SameShape(JsonStrings(<<a_com, b_com>>)),
      SameShape(JsonNull),
      SameShape(JsonNumber(0)),
      SameShape(JsonNumber(5)),
      SameShape(JsonString(a_com)),
      SameShape(JsonLists(<< <<a_com>> >>)),
      ForeignFile(TRUE, ForeignDict(JsonStrings(<<b_com>>), JsonStrings(<<>>),
                                    JsonNumber(5))) }

\* A statistics list of n records, as n runs leave it
StatsOfRuns(n) ==
    [kind |-> "ok", data |-> [i \in 1..n |-> [total |-> i % 2, itdog |-> 0, v2fly |-> 0]]]

FoundStats ==
    { Absent, Corrupt, ForeignFile(TRUE, JsonNull),
      StatsOfRuns(1), StatsOfRuns(StatsKeep - 1), StatsOfRuns(StatsKeep) }

InitFound ==
    /\ text = <<>>
    /\ raw_line = <<>>
    /\ NothingParsed
    /\ max_lines = MaxLinesCap
    /\ pc = "idle"
    /\ state_json \in FoundStates
    /\ stats_json \in FoundStats
    /\ final_out = Absent
    /\ tg_alert = Absent
    /\ NoRunYet

NextFound ==
    \/ BeginRun(1)
    \/ BeginRunRaises(1)
    \/ \E res \in http_get_text(ItdogVersions) : FetchItdog(res)
    \/ \E file \in CategoryFileVersions : ReadCategories(file)
    \/ \E res \in http_get_text(V2flyVersions) : FetchCategory(res)
    \/ MergeAndLimit
    \/ WriteFinal
    \/ DiffAndStats
    \/ WriteState
    \/ Notify
    \/ \E left \in {FileBeingWritten, Corrupt} : PersistFails(left)

SpecFound == InitFound /\ [][NextFound]_vars

(***************************************************************************)
(* The validator and the parsers on their own: one text and one of its     *)
(* lines are given, and each function is applied to them in turn.          *)
(***************************************************************************)
pipeline == <<max_lines, files, history, runs, rc, prev_state, warnings,
              fetched, merged, diffed, counted>>

InitParse ==
    /\ text \in ParseTexts
    /\ raw_line \in (IF text = <<>> THEN {<<>>} ELSE Range(text))
    /\ NothingParsed
    /\ max_lines = MaxLinesCap
    /\ pc = "given"
    /\ FreshCheckout

\* normalize_domain(raw_line)
Normalize ==
    /\ pc = "given"
    /\ pc' = "normalized"
    /\ normalized' = <<normalize_domain(raw_line)>>
    /\ UNCHANGED <<text, raw_line, prefixed, itdog_parsed, v2fly_parsed, pipeline>>

\* normalize_domain of what normalize_domain returned, when that is a string
Renormalize ==
    /\ pc = "normalized"
    /\ normalized[1] # None
    /\ pc' = "renormalized"
    /\ normalized' = Append(normalized, normalize_domain(normalized[1]))
    /\ UNCHANGED <<text, raw_line, prefixed, itdog_parsed, v2fly_parsed, pipeline>>

\* normalize_domain("domain:" + raw_line) and normalize_domain("full:" + raw_line)
NormalizePrefixed ==
    /\ pc \in {"normalized", "renormalized"}
    /\ pc = "normalized" => normalized[1] = None
    /\ pc' = "prefixed"
    /\ prefixed' = [p \in V2FLY_EXTRACT_PREFIXES |-> normalize_domain(p \o raw_line)]
    /\ UNCHANGED <<text, raw_line, normalized, itdog_parsed, v2fly_parsed, pipeline>>

\* parse_itdog(text)
ParseItdog ==
    /\ pc = "prefixed"
    /\ pc' = "itdog_parsed"
    /\ itdog_parsed' = parse_itdog(text)
    /\ UNCHANGED <<text, raw_line, normalized, prefixed, v2fly_parsed, pipeline>>

\* parse_v2fly_with_stats(text)
ParseV2fly ==
    /\ pc = "itdog_parsed"
    /\ pc' = "v2fly_parsed"
    /\ v2fly_parsed' = parse_v2fly_with_stats(text)
    /\ UNCHANGED <<text, raw_line, normalized, prefixed, itdog_parsed, pipeline>>

\* lines 455-456 of main(): the parsed itdog list is deduplicated
DeduplicateItdog ==
    /\ pc = "v2fly_parsed"
    /\ pc' = "deduplicated"
    /\ itdog_list' = itdog_parsed
    /\ itdog_unique' = Unique(itdog_parsed)
    /\ UNCHANGED <<parsing, max_lines, files, history, runs, rc, prev_state,
                   warnings, itdog_fetch, categories_file, cats, cat_i, cat_fetch,
                   v2fly_domains_all, per_cat_stats, failed_categories,
                   empty_categories, merged, diffed, counted>>

NextParse ==
    \/ Normalize
    \/ Renormalize
    \/ NormalizePrefixed
    \/ ParseItdog
    \/ ParseV2fly
    \/ DeduplicateItdog

SpecParse == InitParse /\ [][NextParse]_vars

(***************************************************************************)
(* Properties.                                                             *)
(***************************************************************************)
\* The run is past the merge and the limit (line 543)
AfterMerge == pc \in {"write_final", "stats", "write_state", "notify", "done", "failed"}

Max(x, y) == IF x >= y THEN x ELSE y

IsSortedAsc(xs) == \A i, j \in 1..Len(xs) : i < j => StrLess(xs[i], xs[j])

NoDuplicates(xs) == \A i, j \in 1..Len(xs) : i # j => xs[i] # xs[j]

FirstIndex(xs, x) == CHOOSE i \in 1..Len(xs) : xs[i] = x /\ \A j \in 1..(i - 1) : xs[j] # x

\* C1: the final list has at most max_lines entries, and truncated_count is
\* max(0, len(itdog_unique) + len(v2fly_extras) - max_lines).
C1_LimitInvariant ==
    AfterMerge =>
        /\ Len(final_list) <= max_lines
        /\ truncated_count =
             Max(0, Len(itdog_unique) + Len(v2fly_extras_sorted) - max_lines)

\* a run whose candidate list was cut to a limit that is not 0
C1_Witness ==
    /\ AfterMerge
    /\ max_lines > 0
    /\ truncated_count > 0
    /\ Len(final_list) = max_lines
    /\ v2fly_extras_sorted # <<>>

\* C2: a domain of both the parsed itdog input and a fetched v2fly category is
\* in itdog_unique and not in v2fly_extras; the two never share a domain.
C2_Precedence ==
    AfterMerge =>
        /\ \A d \in Range(itdog_list) \cap Range(v2fly_domains_all) :
              d \in Range(itdog_unique) /\ d \notin Range(v2fly_extras_sorted)
        /\ Range(itdog_unique) \cap Range(v2fly_extras_sorted) = {}

\* a run where a domain came from both sources and other extras remained
C2_Witness ==
    /\ AfterMerge
    /\ Range(itdog_list) \cap Range(v2fly_domains_all) # {}
    /\ v2fly_extras_sorted # <<>>

\* C3: when max_lines >= len(itdog_unique), the final list starts with
\* itdog_unique in the order of the itdog input, and the rest is the prefix of
\* that length of the v2fly extras sorted in ascending order.
C3_OrderInvariant ==
    (AfterMerge /\ max_lines >= Len(itdog_unique)) =>
        LET n == Len(itdog_unique)
            k == Len(final_list) - n
        IN  /\ k >= 0
            /\ SubSeq(final_list, 1, n) = itdog_unique
            /\ Range(itdog_unique) = Range(itdog_list)
            /\ \A i, j \in 1..n :
                  i < j => FirstIndex(itdog_list, itdog_unique[i])
                             < FirstIndex(itdog_list, itdog_unique[j])
            /\ SubSeq(final_list, n + 1, Len(final_list))
                 = SubSeq(v2fly_extras_sorted, 1, k)
            /\ IsSortedAsc(v2fly_extras_sorted)
            /\ Range(v2fly_extras_sorted)
                 = Range(v2fly_domains_all) \ Range(itdog_unique)

\* a run that kept an itdog domain and a proper, non-empty prefix of extras
\* that the categories did not give in ascending order
C3_Witness ==
    /\ AfterMerge
    /\ max_lines >= Len(itdog_unique)
    /\ itdog_unique # <<>>
    /\ Len(final_list) > Len(itdog_unique)
    /\ truncated_count > 0
    /\ ~IsSortedAsc(v2fly_domains_all)

SetsOf(file) ==
    IF file.kind = "ok"
    THEN [itdog |-> Range(file.value.itdog_domains),
          v2fly |-> Range(file.value.v2fly_extras),
          final |-> Range(file.value.final_domains)]
    ELSE [itdog |-> {}, v2fly |-> {}, final |-> {}]

DiffIsBetween(diff, old, new) ==
    /\ Range(diff.added) = new \ old
    /\ Range(diff.removed) = old \ new
    /\ (old \cup Range(diff.added)) \ Range(diff.removed) = new

\* C5: with S1 the state record a run found (empty when there was none) and S2
\* the record it persisted, its diffs are added = S2 - S1 and removed = S1 - S2,
\* and (S1 + added) - removed = S2, for the final, itdog and extras sets.
C5_DiffCorrect ==
    (pc \in {"notify", "done"} /\ disk0[1].kind # "corrupt") =>
        LET S1 == SetsOf(disk0[1])
            S2 == SetsOf(state_json)
        IN  /\ state_json.kind = "ok"
            /\ DiffIsBetween(final_diff, S1.final, S2.final)
            /\ DiffIsBetween(itdog_diff, S1.itdog, S2.itdog)
            /\ DiffIsBetween(v2fly_diff, S1.v2fly, S2.v2fly)

\* a completed run that found a state record and both added and removed
\* domains of the final list
C5_Witness ==
    /\ pc = "done"
    /\ disk0[1].kind = "ok"
    /\ final_diff.added # <<>>
    /\ final_diff.removed # <<>>

\* C6: a run that fails while writing leaves the files of the run before it
\* exactly as it found them.
C6_NoPartialCommit == pc = "failed" => files = disk0

\* C7: a reader of the persisted state record alone computes the added and
\* removed sets that the build run computed against the previous state.
C7_ReaderSeesSameDiffs ==
    pc = "done" =>
        LET r == report_diffs(state_json.value)
        IN  /\ r.itdog = itdog_diff
            /\ r.v2fly = v2fly_diff
            /\ r.final = final_diff

SameInputsAsBefore ==
    /\ before.some
    /\ before.itdog_fetch = itdog_fetch
    /\ before.categories_file = categories_file
    /\ before.cat_fetch = cat_fetch

\* C8: a run with the inputs of the completed run before it has empty added
\* and removed lists for the three diffs, and the same hash of the final file.
C8_RerunIsQuiet ==
    (pc = "done" /\ SameInputsAsBefore) =>
        /\ itdog_diff = NoDiff
        /\ v2fly_diff = NoDiff
        /\ final_diff = NoDiff
        /\ sha_final = before.sha_final

\* a second run with the inputs of the first, which gave itdog domains and
\* extras
C8_Witness ==
    /\ pc = "done"
    /\ SameInputsAsBefore
    /\ itdog_unique # <<>>
    /\ v2fly_extras_sorted # <<>>

WriteSteps == {"write_final", "stats", "write_state", "notify"}

FailedFetches == {i \in 1..Len(cat_fetch) : ~cat_fetch[i].res.ok}

AnyFetchFailed == ~itdog_fetch.ok \/ FailedFetches # {}

\* The domains of the sources that were fetched
FetchedDomains ==
    (IF itdog_fetch.ok THEN Range(parse_itdog(itdog_fetch.text)) ELSE {})
    \cup UNION { Range(parse_v2fly_with_stats(cat_fetch[i].res.text).domains) :
                   i \in (1..Len(cat_fetch)) \ FailedFetches }

\* C9: no fetch failure aborts the run: a run ends early only when a write
\* raises, and the loop over the categories always has its next turn to take;
\* a run that ends has written the final file and the state record and
\* returns 0; it has a warning if a fetch failed, and a failed source gives no
\* domain.
C9_FetchFailureIsSoft ==
    /\ pc = "failed" => failed_at \in WriteSteps
    /\ pc = "category" => cat_i \in 1..Len(cats)
    /\ pc = "done" =>
         /\ rc = 0
         /\ final_out = [kind |-> "ok", lines |-> FileLines(final_list)]
         /\ state_json.kind = "ok"
         /\ Range(state_json.value.final_domains) = Range(final_list)
    /\ AfterMerge =>
         /\ AnyFetchFailed => warnings # <<>>
         /\ ~itdog_fetch.ok => itdog_unique = <<>>
         /\ FailedFetches = 1..Len(cat_fetch) => v2fly_extras_sorted = <<>>
         /\ Range(final_list) \subseteq FetchedDomains

\* a completed run whose itdog fetch and one of two category fetches failed
\* and whose other category gave the final list
C9_Witness ==
    /\ pc = "done"
    /\ rc = 0
    /\ ~itdog_fetch.ok
    /\ Len(cat_fetch) = 2
    /\ Cardinality(FailedFetches) = 1
    /\ final_list # <<>>

\* C10: when the fetch of a category fails with an HTTP error status, the
\* category has status FAIL and no valid domain, the warnings hold one that
\* names the category and the status code, and the run succeeds.
C10_HttpFailureWarning ==
    pc = "done" =>
        \A i \in 1..Len(cat_fetch) :
            LET f == cat_fetch[i]
            IN  (~f.res.ok /\ f.res.status \in HttpErrorCodes) =>
                    /\ per_cat_stats[f.cat].status = "FAIL"
                    /\ per_cat_stats[f.cat].valid_domains = 0
                    /\ \E w \in Range(warnings) :
                          w.cat = f.cat /\ w.error.code = f.res.status
                    /\ rc = 0

\* The wordings of a warning about the limit.  main() has none of them: its
\* six warnings.append (lines 448-517) are about the fetches and the category
\* file.
IsTruncationWarning(w) == w.kind = "truncated"

IsItdogCutWarning(w) == w.kind \in {"truncated", "itdog_truncated", "max_lines_too_small"}

IsNearLimitWarning(w) == w.kind = "near_limit"

\* C11: whenever truncated_count > 0, the warnings of the run hold a
\* truncation warning.
C11_TruncationWarning ==
    (AfterMerge /\ truncated_count > 0) =>
        \E w \in Range(warnings) : IsTruncationWarning(w)

\* C12: whenever max_lines < len(itdog_unique) the run has a warning for it,
\* and whenever max_lines >= len(itdog_unique) every itdog domain is in the
\* final list.
C12_ItdogCutIsWarned ==
    AfterMerge =>
        /\ max_lines < Len(itdog_unique) =>
              \E w \in Range(warnings) : IsItdogCutWarning(w)
        /\ max_lines >= Len(itdog_unique) =>
              Range(itdog_unique) \subseteq Range(final_list)

\* C13: whenever the final count is at or above the near-limit threshold, the
\* warnings of the run hold a near-limit warning.
C13_NearLimitWarning ==
    (AfterMerge /\ near_limit(Cardinality(final_set))) =>
        \E w \in Range(warnings) : IsNearLimitWarning(w)

\* C14: whenever a fetched category gave no valid domain, the warnings of the
\* run hold a warning for it, whatever the other categories gave.
C14_EmptyCategoryWarning ==
    AfterMerge =>
        \A c \in Range(empty_categories) :
            \E w \in Range(warnings) : w = WarnNoV2flyDomains \/ w.cat = c

\* The lines of a file that hold something ("\n".join([]) + "\n" is a file of
\* one empty line)
DomainLines(file) == SelectSeq(file.lines, LAMBDA l : l # <<>>)

\* The pattern of a domain matches the whole line as it is written
IsCleanDomain(l) ==
    /\ DOMAIN_RE(l)
    /\ l = Lower(l)
    /\ Range(l) \cap (Whitespace \cup {"/", "_"}) = {}
    /\ Head(l) # "." /\ l[Len(l)] # "."

\* C15: every line of the final file a run wrote is a domain the validator
\* accepts (lowercase, no dot at either end, no whitespace, slash or
\* underscore), and the counter of bad output lines is 0.
C15_OutputLinesAreDomains ==
    pc \in {"stats", "write_state", "notify", "done"} =>
        /\ final_out.kind = "ok"
        /\ \A l \in Range(DomainLines(final_out)) : IsCleanDomain(l)
        /\ bad_output_lines = 0

HasPrefixOf(line, prefixes) == \E p \in prefixes : StartsWith(line, p)

\* C16: a line of a v2fly text that is not blank, not a comment, holds ":" and
\* starts with neither domain:/full: nor a recognized directive prefix counts
\* as a skipped directive, not as an invalid line, and gives no domain.
C16_UnknownColonLineIsSkipped ==
    (pc = "v2fly_parsed" /\ Len(text) = 1) =>
        LET line == Strip(text[1])
        IN  (/\ ~IsSkippedLine(line)
             /\ ":" \in Range(line)
             /\ ~HasPrefixOf(line, V2FLY_EXTRACT_PREFIXES)
             /\ ~HasPrefixOf(line, V2FLY_DIRECTIVE_PREFIXES)) =>
                /\ v2fly_parsed.skipped_directives = 1
                /\ v2fly_parsed.invalid_lines = 0
                /\ v2fly_parsed.domains = <<>>

\* C17: for every string X, normalize_domain of "domain:" + X and of
\* "full:" + X is normalize_domain of X, and an itdog line "domain:" + X gives
\* the domain of X.
C17_ValidatorStripsPrefix ==
    /\ pc \in {"prefixed", "itdog_parsed", "v2fly_parsed"} =>
          \A p \in V2FLY_EXTRACT_PREFIXES : prefixed[p] = normalized[1]
    /\ (/\ pc = "v2fly_parsed"
        /\ Len(text) = 1
        /\ HasPrefixOf(text[1], V2FLY_EXTRACT_PREFIXES)) =>
          LET dom == normalize_domain(AfterColon(text[1]))
          IN  itdog_parsed = IF dom = None THEN <<>> ELSE <<dom>>

\* C18: when normalize_domain(s) succeeds, normalize_domain of its result is
\* that result.
C18_NormalizeIdempotent ==
    Len(normalized) = 2 => normalized[2] = normalized[1]

\* the lines of the text that are neither blank nor a comment
CountedLines == {i \in 1..Len(text) : ~IsSkippedLine(Strip(text[i]))}

\* C20: the v2fly parser puts every line that is neither blank nor a comment
\* in exactly one of: a domain, an invalid line, a skipped directive.  A line
\* with domain:/full: gives the domain of what follows the prefix, or is
\* invalid when that is no domain; a line with a directive prefix is skipped
\* and gives nothing; the three counts add up to the number of such lines.
C20_V2flyClassification ==
    pc = "v2fly_parsed" =>
        /\ Len(v2fly_parsed.domains) + v2fly_parsed.invalid_lines
              + v2fly_parsed.skipped_directives = Cardinality(CountedLines)
        /\ \A d \in Range(v2fly_parsed.domains) : is_domain(d)
        /\ (Len(text) = 1 /\ CountedLines # {}) =>
              LET line == Strip(text[1])
                  dom  == normalize_domain(AfterColon(line))
              IN  /\ HasPrefixOf(line, V2FLY_EXTRACT_PREFIXES) =>
                        v2fly_parsed =
                          IF dom # None
                          THEN [domains |-> <<dom>>, invalid_lines |-> 0,
                                skipped_directives |-> 0]
                          ELSE [domains |-> <<>>, invalid_lines |-> 1,
                                skipped_directives |-> 0]
                  /\ HasPrefixOf(line, V2FLY_DIRECTIVE_PREFIXES) =>
                        v2fly_parsed =
                          [domains |-> <<>>, invalid_lines |-> 0,
                           skipped_directives |-> 1]

\* a text of a directive and a domain:/full: line that gives a domain
C20_Witness ==
    /\ pc = "v2fly_parsed"
    /\ Len(text) = 2
    /\ v2fly_parsed.skipped_directives = 1
    /\ Len(v2fly_parsed.domains) = 1
    /\ HasPrefixOf(text[2], V2FLY_EXTRACT_PREFIXES)

\* The category file is missing, or each of its lines is blank or a comment
NoCategory(file) ==
    file.kind # "ok"
        \/ \A i \in 1..Len(file.lines) : IsSkippedLine(Strip(file.lines[i]))

V2flySkippedWarnings ==
    {i \in 1..Len(warnings) : warnings[i] \in {WarnNoCatFile, WarnCatFileEmpty}}

\* C19: when the category file is missing or holds no category, the run
\* fetches no category, v2fly_extras is empty, the final list is itdog_unique
\* cut to the limit, the warnings hold exactly one "v2fly skipped" warning,
\* and the run ends with status 0 unless a write raises.
C19_NoCategoriesSkipsV2fly ==
    (pc \notin {"idle", "itdog", "categories"} /\ NoCategory(categories_file)) =>
        /\ pc # "category"
        /\ cat_fetch = <<>>
        /\ v2fly_domains_all = <<>>
        /\ Cardinality(V2flySkippedWarnings) = 1
        /\ AfterMerge =>
              /\ v2fly_extras_sorted = <<>>
              /\ final_list = Take(itdog_unique, max_lines)
        /\ pc = "failed" => failed_at \in WriteSteps
        /\ pc = "done" =>
              /\ rc = 0
              /\ state_json.kind = "ok"
              /\ state_json.value.v2fly_extras = <<>>

\* a completed run whose category file holds a comment and no category, and
\* whose itdog list was cut to a limit that is not 0
C19_Witness ==
    /\ pc = "done"
    /\ categories_file.kind = "ok"
    /\ categories_file.lines # <<>>
    /\ NoCategory(categories_file)
    /\ final_list # <<>>
    /\ Len(final_list) < Len(itdog_unique)

\* The domains of the lines of a text, line by line: nothing for a line that
\* is blank, a comment or no domain
RECURSIVE DomainsLineByLine(_)
DomainsLineByLine(lines) ==
    IF lines = <<>> THEN <<>>
    ELSE LET init == DomainsLineByLine(SubSeq(lines, 1, Len(lines) - 1))
             line == Strip(lines[Len(lines)])
         IN  IF ~IsSkippedLine(line) /\ normalize_domain(line) # None
             THEN Append(init, normalize_domain(line))
             ELSE init

\* C21: the itdog parser keeps the order of the lines and the duplicates, and
\* itdog_unique holds every domain of the parsed list once, in the order of
\* the first occurrences.
C21_FirstOccurrenceOrder ==
    pc = "deduplicated" =>
        /\ itdog_parsed = DomainsLineByLine(text)
        /\ Range(itdog_unique) = Range(itdog_parsed)
        /\ NoDuplicates(itdog_unique)
        /\ \A i, j \in 1..Len(itdog_unique) :
              i < j => FirstIndex(itdog_parsed, itdog_unique[i])
                         < FirstIndex(itdog_parsed, itdog_unique[j])

\* a text whose first domain comes back after another domain
C21_Witness ==
    /\ pc = "deduplicated"
    /\ Len(itdog_parsed) = 3
    /\ itdog_parsed[1] = itdog_parsed[3]
    /\ itdog_parsed[1] # itdog_parsed[2]
    /\ Len(itdog_unique) = 2

\* C26: the counts are conserved, len(itdog_unique) + len(v2fly_extras) =
\* len(final) + truncated_count, in the run and in the record it persists; the
\* final domains are domains of itdog_unique or v2fly_extras, and all of them
\* exactly when truncated_count = 0.
C26_CountsConserved ==
    /\ AfterMerge =>
          /\ Len(itdog_unique) + Len(v2fly_extras_sorted)
                = Len(final_list) + truncated_count
          /\ final_set \subseteq itdog_set \cup v2fly_set
          /\ final_set = itdog_set \cup v2fly_set <=> truncated_count = 0
    /\ pc = "done" =>
          LET s == state_json.value
          IN  /\ Len(s.itdog_domains) + Len(s.v2fly_extras)
                    = Len(s.final_domains) + truncated_count
              /\ Range(s.final_domains)
                    \subseteq Range(s.itdog_domains) \cup Range(s.v2fly_extras)
              /\ Range(s.final_domains)
                    = Range(s.itdog_domains) \cup Range(s.v2fly_extras)
                 <=> truncated_count = 0

\* a completed run that cut one domain and kept others
C26_Witness ==
    /\ pc = "done"
    /\ truncated_count = 1
    /\ final_list # <<>>
    /\ Cardinality(itdog_set \cup v2fly_set) = Cardinality(final_set) + 1

\* The counts of the categories are computed (lines 587-594)
AfterCounting == pc \in {"notify", "done"}

\* C27: when the category file has a category, v2fly_ok + v2fly_fail is the
\* number of category lines, v2fly_fail is the number of entries of
\* failed_categories, and the failed count of the warning is v2fly_fail, also
\* when a category is listed more than once.
C27_CategoryCounts ==
    (AfterCounting /\ cats # <<>>) =>
        /\ v2fly_ok + v2fly_fail = Len(cats)
        /\ v2fly_fail = Len(failed_categories)
        /\ \A i \in 1..Len(warnings) :
              warnings[i].kind = "v2fly_categories_failed"
                  => warnings[i].failed = v2fly_fail

\* The status the claim gives to a fetch
StatusOf(res) ==
    IF ~res.ok THEN "FAIL"
    ELSE IF parse_v2fly_with_stats(res.text).domains = <<>> THEN "EMPTY"
    ELSE "OK"

\* C23: every result of a category in the state record has a status that is
\* exactly OK, EMPTY or FAIL, which the reporter knows; there is one result
\* for each configured category: FAIL iff its fetch failed, EMPTY iff it was
\* fetched and gave no valid domain, OK otherwise.
C23_StatusTags ==
    pc = "done" =>
        LET per == state_json.value.v2fly_per_category
        IN  /\ DOMAIN per = Range(cats)
            /\ \A c \in DOMAIN per :
                  /\ per[c].status \in {"OK", "EMPTY", "FAIL"}
                  /\ status_emoji(per[c].status) # "white"
            /\ \A i \in 1..Len(cat_fetch) :
                  per[cat_fetch[i].cat].status = StatusOf(cat_fetch[i].res)

\* lines 474-492: v2fly_domains_all after the categories were fetched in the
\* order of the sequence fetches
RECURSIVE DomainsOfFetches(_)
DomainsOfFetches(fetches) ==
    IF fetches = <<>> THEN <<>>
    ELSE CategoryDomains(Head(fetches).res) \o DomainsOfFetches(Tail(fetches))

\* lines 521-540: the merge of the run, had the categories been fetched in the
\* order of the sequence fetches
MergeOf(fetches) ==
    LET extras == V2flyExtras(DomainsOfFetches(fetches), itdog_set)
        full   == itdog_unique \o extras
    IN  [v2fly_extras |-> extras,
         final        |-> FinalList(full, max_lines),
         truncated    |-> TruncatedCount(full, max_lines)]

Permuted(fetches, p) == [i \in 1..Len(fetches) |-> fetches[p[i]]]

\* C24: the order of the categories does not affect the merge: with the same
\* fetch results in any other order, v2fly_extras, the final list and
\* truncated_count are those of the run.
C24_CategoryOrderIrrelevant ==
    (AfterMerge /\ cat_fetch # <<>>) =>
        \A p \in Permutations(1..Len(cat_fetch)) :
            MergeOf(Permuted(cat_fetch, p))
                = [v2fly_extras |-> v2fly_extras_sorted,
                   final        |-> final_list,
                   truncated    |-> truncated_count]

\* two categories whose domains were fetched in descending order
C24_Witness ==
    /\ AfterMerge
    /\ Len(cat_fetch) = 2
    /\ CategoryDomains(cat_fetch[1].res) # <<>>
    /\ CategoryDomains(cat_fetch[2].res) # <<>>
    /\ v2fly_extras_sorted
         = CategoryDomains(cat_fetch[2].res) \o CategoryDomains(cat_fetch[1].res)
    /\ Len(v2fly_extras_sorted) = 2

\* The fetch whose result is recorded for a category: the last one of the run
LastFetchOf(c) ==
    LET i == CHOOSE k \in 1..Len(cat_fetch) :
                 /\ cat_fetch[k].cat = c
                 /\ \A j \in (k + 1)..Len(cat_fetch) : cat_fetch[j].cat # c
    IN  cat_fetch[i].res

\* The domains of the final list that follow the itdog domains
V2flySegment == final_set \ itdog_set

C28_AlertIffWarnings ==
    pc = "done" =>
        /\ tg_alert.kind = "ok" <=> warnings # <<>>
        /\ tg_alert.kind = "ok" => tg_alert.warnings = warnings
        /\ warnings = <<>> => tg_alert = Absent

\* a run without warnings that found the alert of an earlier run and removed it
C28_Witness ==
    /\ pc = "done"
    /\ runs = 2
    /\ warnings = <<>>
    /\ disk0[4].kind = "ok"
    /\ tg_alert = Absent

ListKeys == {"itdog_domains", "v2fly_extras", "final_domains"}

\* A state file that is unparseable, holds no JSON object, or holds an object
\* one of whose lists of domains is no list of strings
MalformedState(file) ==
    \/ file.kind = "corrupt"
    \/ /\ file.kind = "foreign"
       /\ \/ ~file.is_dict
          \/ \E key \in ListKeys : file.value[key].json # "strings"

AllAdded(diff, now) == Range(diff.added) = now /\ diff.removed = <<>>

\* C25: a run that finds a malformed state record does not crash on it (it
\* ends early only when a write raises) and reports every current domain as
\* added and none as removed, as a run that finds no state record does.
C25_MalformedStateIsAbsent ==
    MalformedState(disk0[1]) =>
        /\ pc = "failed" => failed_at \in WriteSteps
        /\ pc \in {"write_state", "notify", "done"} =>
              /\ AllAdded(itdog_diff, itdog_set)
              /\ AllAdded(v2fly_diff, v2fly_set)
              /\ AllAdded(final_diff, final_set)

Min(a, b) == IF a < b THEN a ELSE b

\* C29: after a run has written the statistics, the file holds at most 200
\* records, the last one holds the totals of the run, the records before it
\* are the most recent records the run found, in their order, and delta_total
\* is the final count minus the total of the last record the run found
\* (undefined when the file was missing, unparseable, no list or empty).
C29_RollingStats ==
    pc \in {"write_state", "notify", "done"} =>
        LET old == StatsData(disk0[3])
            new == StatsData(stats_json)
            n   == Len(new)
        IN  /\ stats_json.kind = "ok"
            /\ n <= StatsKeep
            /\ n = Min(Len(old) + 1, StatsKeep)
            /\ new[n] = [total |-> Cardinality(final_set),
                         itdog |-> Cardinality(itdog_set),
                         v2fly |-> Cardinality(v2fly_set)]
            /\ \A i \in 1..(n - 1) : new[i] = old[Len(old) - (n - 1) + i]
            /\ delta_total =
                 IF Len(old) = 0 THEN NoDelta
                 ELSE [some |-> TRUE,
                       value |-> Cardinality(final_set) - old[Len(old)].total]

\* a completed run that found a full statistics file, dropped its oldest
\* record and reported a delta
C29_Witness ==
    /\ pc = "done"
    /\ Len(StatsData(disk0[3])) = StatsKeep
    /\ Len(StatsData(stats_json)) = StatsKeep
    /\ StatsData(stats_json)[1] = StatsData(disk0[3])[2]
    /\ delta_total.some
    /\ delta_total.value # 0

\* A run without warning, failed or empty category, truncation or bad line,
\* whose final count is below 85% of the limit and below the threshold
CleanRun ==
    /\ warnings = <<>>
    /\ failed_categories = <<>>
    /\ empty_categories = <<>>
    /\ truncated_count = 0
    /\ bad_output_lines = 0
    /\ 100 * Len(final_list) < 85 * max_lines
    /\ Len(final_list) < NEAR_LIMIT_THRESHOLD

\* The fields of a state record that tell an error: a failed category, a
\* truncation, a bad output line, a usage of 96% or more
ErrorFields ==
    { [v2fly_fail |-> 1],
      [failed_categories |-> <<cat1>>],
      [truncated |-> 1],
      [bad_output_lines |-> 1],
      [final_total |-> 1, max_lines |-> 1, final_domains |-> <<a_com>>] }

\* C30: the reporters classify the state record a clean run has written as
\* OK, and a state record with a failed category, a truncation, a bad output
\* line or a usage of 96% or more as an error, whatever its other fields.
C30_SeverityLevels ==
    pc = "done" =>
        LET s == state_json.value
        IN  /\ CleanRun =>
                 /\ classify_severity(s) = "OK"
                 /\ report_severity(s) = "OK"
            /\ \A o \in ErrorFields :
                 /\ classify_severity(o @@ s) = "ERROR"
                 /\ report_severity(o @@ s) = "ERROR"

====
